---- MODULE Spec2Model ----
(***************************************************************************)
(* Verification model of the WeMake-AI raycast-extensions repository.      *)
(*                                                                         *)
(* The repository holds one configuration file (eslint.config.js) and      *)
(* guides whose code blocks define a CI/CD workflow, deployment scripts,   *)
(* React hooks, an analytics service and a performance tracker.  Each of   *)
(* these is modelled as its own state machine over its own variables; a    *)
(* specification SpecX runs one of them and leaves the others untouched.   *)
(***************************************************************************)
EXTENDS Integers, Sequences, FiniteSets, TLC

VARIABLES
  \* eslint.config.js
  raycastConfig,      \* the array exported by @raycast/eslint-config
  exportedConfig,     \* the default export of eslint.config.js
  configLoaded,       \* whether the module has been evaluated
  \* .github/workflows/ci-cd.yml
  event,              \* github.event_name
  ref,                \* github.ref
  inputEnvironment,   \* github.event.inputs.environment
  inputExtensions,    \* github.event.inputs.extensions (its kind)
  affected,           \* steps.affected.outputs.extensions (its kind)
  hasChanges,         \* steps.affected.outputs.has-changes
  job,                \* job id -> status
  stepsRun,           \* job id -> number of steps that executed
  \* lib/analytics/posthog-service.ts, hooks/useAnalytics.ts
  enableAnalytics,    \* the enableAnalytics preference handed to the command
  apiKeyConfigured,   \* analyticsApiKey || POSTHOG_API_KEY is non-empty
  instances,          \* the PostHogAnalytics objects constructed so far
  analyticsInstance,  \* module variable analyticsInstance (0 is null)
  lastCall,           \* the last call made and how it ended
  \* scripts/publish.ts, scripts/blue-green-deploy.ts
  extensions,         \* BlueGreenDeployment.extensions
  bgPc,               \* where deploy() is
  bgIndex,            \* position of the running for-of loop
  healthChecked,      \* runHealthChecks() has completed
  commands,           \* what the publishers did, in order
  rollbacks,          \* number of rollback() calls
  bgError,            \* the error deploy() caught ("" when none)
  bgRejection,        \* what deploy() rejected with ("" when it has not)
  \* lib/performance/tracker.ts
  memoryMonitorInterval,  \* the field: 0 is null, else the interval's handle
  scheduledIntervals,     \* handles of the intervals the runtime still fires
  timers,                 \* names with a started timer
  metrics,                \* the metrics array
  recorded,               \* number of recordMetric calls so far
  trackerAnalytics,       \* what getAnalytics() gave the tracker
  trackedEvents,          \* events the tracker handed to an enabled service
  disposed,               \* dispose() has been called
  lastTrackerCall,        \* the last tracker call and how it ended
  operations,             \* the trackAsyncOperation calls made so far
  \* src/hooks/useStorage.ts
  storage,            \* what LocalStorage holds for the key
  defaultValue,       \* the defaultValue argument
  value,              \* the hook's value state
  isLoading,          \* the hook's isLoading state
  loadPc,             \* where loadValue() is
  loadResult,         \* what LocalStorage.getItem settled with
  updates,            \* the updateValue calls made so far
  setItemCalls,       \* the LocalStorage.setItem calls made so far
  \* src/hooks/useAPI.ts
  fetcher,            \* how the fetcher passed to the hook behaves
  data,               \* the hook's data state
  apiIsLoading,       \* the hook's isLoading state
  error,              \* the hook's error state
  apiPc,              \* where fetchData() is
  fetcherCalls,       \* number of times the fetcher was called
  toasts,             \* number of showToast calls
  refetchCalls,       \* refetch() calls made, each with how it ended
  \* scripts/validate-commit-msg.ts
  commitMessage,      \* the text of the commit message file
  validation,         \* what validate() returned for it
  exitCode,           \* the code the script exited with
  printedExamples,    \* the examples the script printed
  \* scripts/update-dependencies.ts
  outdated,           \* what `bun outdated --json` reports
  updateDryRun,       \* the dryRun argument of updateDependencies
  updaterPc,          \* where updateDependencies() is
  toUpdate,           \* the updates filterUpdates() chose
  updateIndex,        \* position of performUpdates' loop
  shell,              \* the commands run through execSync, in order
  updaterError,       \* what updateDependencies() rejected with
  \* scripts/publish.ts
  disk,               \* what is on disk for config.extension
  publishDryRun,      \* config.dryRun
  publishPc,          \* where publish() is
  publishLog,         \* the steps publish() has run, in order
  buildResult,        \* how the build process ended
  publishError,       \* what publish() rejected with
  \* lib/alerts/alert-manager.ts
  now,                \* Date.now() at the last checkAlerts call
  lastAlerts,         \* rule name -> time of its last alert
  alertMetrics,       \* the metrics of the last checkAlerts call
  triggered,          \* the rules that call triggered an alert for, in order
  checks,             \* number of checkAlerts calls so far
  \* scripts/quality-gate.sh
  gateResults,        \* the status each of the four commands exits with
  gateStep,           \* the command the script runs next
  gateRan,            \* the commands run so far, in order
  gateOutput,         \* the lines the script has echoed
  gateExit            \* the status the script exited with

eslintVars == <<raycastConfig, exportedConfig, configLoaded>>
ciVars == <<event, ref, inputEnvironment, inputExtensions, affected, hasChanges,
            job, stepsRun>>
analyticsVars == <<enableAnalytics, apiKeyConfigured, instances, analyticsInstance,
                   lastCall>>
deployVars == <<extensions, bgPc, bgIndex, healthChecked, commands, rollbacks, bgError,
                bgRejection>>
trackerVars == <<memoryMonitorInterval, scheduledIntervals, timers, metrics, recorded,
                 trackerAnalytics, trackedEvents, disposed, lastTrackerCall, operations>>
storageVars == <<storage, defaultValue, value, isLoading, loadPc, loadResult, updates,
                 setItemCalls>>
apiVars == <<fetcher, data, apiIsLoading, error, apiPc, fetcherCalls, toasts,
             refetchCalls>>
validatorVars == <<commitMessage, validation, exitCode, printedExamples>>
updaterVars == <<outdated, updateDryRun, updaterPc, toUpdate, updateIndex, shell,
                 updaterError>>
publisherVars == <<disk, publishDryRun, publishPc, publishLog, buildResult, publishError>>
alertVars == <<now, lastAlerts, alertMetrics, triggered, checks>>
gateVars == <<gateResults, gateStep, gateRan, gateOutput, gateExit>>
toolVars == <<validatorVars, updaterVars, publisherVars, alertVars, gateVars>>
vars == <<eslintVars, ciVars, analyticsVars, deployVars, trackerVars, storageVars,
          apiVars, toolVars>>

(***************************************************************************)
(* eslint.config.js                                                        *)
(***************************************************************************)

\* Bound: longest preset array explored.
MaxPresetLen == 4

\* Config objects a preset may contain (opaque, told apart by name).
PresetEntries ==
  { [name |-> "js/recommended"], [name |-> "typescript"], [name |-> "raycast"] }

RECURSIVE SeqsUpTo(_, _)
SeqsUpTo(S, n) ==
  IF n = 0 THEN { <<>> }
  ELSE LET shorter == SeqsUpTo(S, n - 1)
       IN  shorter \cup { Append(s, x) : s \in { t \in shorter : Len(t) = n - 1 }, x \in S }

\* The ignore globs of the workspace entry, in source order.
IgnoreGlobs ==
  << ".nx/**", "dist/**", "build/**", "node_modules/**",
     "**/*.bundle.js", "**/*.min.js", "**/*.generated.*" >>

IgnoresEntry == [ignores |-> IgnoreGlobs]

\* defineConfig on an array of plain config objects (no nested arrays, no
\* `extends`): a new array holding the objects in argument order.
RECURSIVE defineConfig(_)
defineConfig(arr) ==
  IF arr = <<>> THEN <<>>
  ELSE <<Head(arr)>> \o defineConfig(Tail(arr))

\* A config file that puts the ignores entry first.
EslintConfig_IgnoresFirst(preset) == defineConfig(<<IgnoresEntry>> \o preset)

\* export default defineConfig([...raycastConfig, { ignores: [...] }])
EslintConfig(preset) == defineConfig(preset \o <<IgnoresEntry>>)

StartEslint ==
  /\ raycastConfig \in SeqsUpTo(PresetEntries, MaxPresetLen)
  /\ exportedConfig = <<>>
  /\ configLoaded = FALSE

IdleEslint ==
  /\ raycastConfig = <<>>
  /\ exportedConfig = <<>>
  /\ configLoaded = FALSE

\* Evaluating the module computes its default export.
LoadEslintConfig ==
  /\ ~configLoaded
  /\ exportedConfig' = EslintConfig(raycastConfig)
  /\ configLoaded' = TRUE
  /\ UNCHANGED <<raycastConfig, ciVars, analyticsVars, deployVars, trackerVars,
                 storageVars, apiVars, toolVars>>

(***************************************************************************)
(* .github/workflows/ci-cd.yml                                             *)
(***************************************************************************)

Jobs == { "setup", "lint-and-typecheck", "test", "build", "security-scan",
          "deploy-staging", "deploy-production", "notify" }

Terminal == { "success", "failure", "skipped" }

RefMain == "refs/heads/main"
RefDevelop == "refs/heads/develop"
RefFeature == "refs/heads/feature"
RefPullMerge == "refs/pull/1/merge"

\* on: push (main, develop), pull_request (main, develop), workflow_dispatch.
\* A pull_request run has the merge ref; a dispatch runs on any branch.
Triggers ==
  { [event |-> "push", ref |-> r, environment |-> "", extensions |-> ""] :
      r \in { RefMain, RefDevelop } }
  \cup
  { [event |-> "pull_request", ref |-> RefPullMerge, environment |-> "",
     extensions |-> ""] }
  \cup
  { [event |-> "workflow_dispatch", ref |-> r, environment |-> e, extensions |-> x] :
      r \in { RefMain, RefDevelop, RefFeature },
      e \in { "staging", "production" },
      x \in { "all", "", "names", "json" } }

\* The kinds of text the extensions output can hold: empty, bare names
\* (a,b: not JSON once wrapped in brackets), or JSON values ("a","b").
ExtensionKinds == { "", "names", "json" }

\* needs: of each job
Needs(j) ==
  CASE j = "setup" -> {}
    [] j = "lint-and-typecheck" -> { "setup" }
    [] j = "test" -> { "setup" }
    [] j = "build" -> { "setup", "lint-and-typecheck", "test" }
    [] j = "security-scan" -> { "setup" }
    [] j = "deploy-staging" -> { "setup", "build" }
    [] j = "deploy-production" -> { "setup", "build", "security-scan" }
    [] j = "notify" -> { "deploy-staging", "deploy-production" }

\* Jobs whose if: holds a status function (always()) and so run whatever
\* their needs concluded.
UsesAlways(j) == j = "notify"

\* Jobs with strategy.matrix.extension: fromJson(format('[{0}]', extensions))
HasMatrix(j) == j \in { "build", "deploy-staging", "deploy-production" }

\* Number of steps of each job.
NumSteps(j) ==
  CASE j = "setup" -> 4
    [] j = "lint-and-typecheck" -> 5
    [] j = "test" -> 5
    [] j = "build" -> 5
    [] j = "security-scan" -> 4
    [] j = "deploy-staging" -> 3
    [] j = "deploy-production" -> 3
    [] j = "notify" -> 1

\* Position of 'Publish to Raycast Store' among deploy-production's steps.
PublishStep == 3

HasChangesTrue == hasChanges = "true"

DeployStagingIf ==
  /\ HasChangesTrue
  /\ \/ ref = RefDevelop
     \/ (event = "workflow_dispatch" /\ inputEnvironment = "staging")

DeployProductionIf ==
  /\ HasChangesTrue
  /\ \/ ref = RefMain
     \/ (event = "workflow_dispatch" /\ inputEnvironment = "production")

\* if: of each job
JobIf(j) ==
  CASE j = "setup" -> TRUE
    [] j \in { "lint-and-typecheck", "test", "build", "security-scan" } -> HasChangesTrue
    [] j = "deploy-staging" -> DeployStagingIf
    [] j = "deploy-production" -> DeployProductionIf
    [] j = "notify" -> TRUE

NeedsCompleted(j) == \A n \in Needs(j) : job[n] \in Terminal

\* The implicit success() of an if: without a status function.
NeedsSucceeded(j) == \A n \in Needs(j) : job[n] = "success"

\* A job that runs although a job it needs did not succeed.
ShouldRun_IgnoreNeeds(j) == JobIf(j)

ShouldRun(j) ==
  IF UsesAlways(j) THEN JobIf(j) ELSE NeedsSucceeded(j) /\ JobIf(j)

StartCI ==
  /\ \E t \in Triggers :
       /\ event = t.event
       /\ ref = t.ref
       /\ inputEnvironment = t.environment
       /\ inputExtensions = t.extensions
  /\ affected = ""
  /\ hasChanges = ""
  /\ job = [j \in Jobs |-> "waiting"]
  /\ stepsRun = [j \in Jobs |-> 0]

IdleCI ==
  /\ event = "push"
  /\ ref = RefMain
  /\ inputEnvironment = ""
  /\ inputExtensions = ""
  /\ affected = ""
  /\ hasChanges = ""
  /\ job = [j \in Jobs |-> "waiting"]
  /\ stepsRun = [j \in Jobs |-> 0]

\* The runner picks up a job once the jobs it needs have concluded: it is
\* skipped when its condition is false, and fails before its first step when
\* its matrix expression cannot be evaluated.
StartJob(j) ==
  /\ job[j] = "waiting"
  /\ NeedsCompleted(j)
  /\ job' = [job EXCEPT ![j] =
       IF ~ShouldRun(j) THEN "skipped"
       ELSE IF HasMatrix(j) /\ affected # "json" THEN "failure"
       ELSE "running"]
  /\ UNCHANGED <<event, ref, inputEnvironment, inputExtensions, affected,
                 hasChanges, stepsRun, eslintVars, analyticsVars, deployVars,
                 trackerVars, storageVars, apiVars, toolVars>>

\* 'Get affected extensions' (the last step of setup) writes both outputs.
AffectedOutputs ==
  IF event = "workflow_dispatch" /\ inputExtensions # "all"
  THEN { inputExtensions }
  ELSE ExtensionKinds

\* A running job executes its steps in order until one fails.
FinishJob(j) ==
  /\ job[j] = "running"
  /\ \E failAt \in 0 .. NumSteps(j) :
       /\ job' = [job EXCEPT ![j] = IF failAt = 0 THEN "success" ELSE "failure"]
       /\ stepsRun' = [stepsRun EXCEPT ![j] = IF failAt = 0 THEN NumSteps(j) ELSE failAt]
       /\ IF j = "setup" /\ failAt = 0
          THEN \E x \in AffectedOutputs :
                 /\ affected' = x
                 /\ hasChanges' = IF x # "" THEN "true" ELSE "false"
          ELSE UNCHANGED <<affected, hasChanges>>
  /\ UNCHANGED <<event, ref, inputEnvironment, inputExtensions, eslintVars,
                 analyticsVars, deployVars, trackerVars, storageVars, apiVars,
                 toolVars>>

\* The 'Publish to Raycast Store' step executed in this run.
PublishStepRan == stepsRun["deploy-production"] >= PublishStep

(***************************************************************************)
(* lib/analytics/posthog-service.ts and hooks/useAnalytics.ts              *)
(***************************************************************************)

\* Bound: PostHogAnalytics objects constructed in one process.
MaxInstances == 2

\* Values getPreferenceValues() can hold for enableAnalytics: the checkbox
\* values, absent, or a truthy value that is not the boolean true.  The
\* values are handed to the command at launch and stay fixed while it runs.
PrefValues == { "true", "false", "undefined", "truthy" }

\* Methods that delegate to track().
TrackMethods == { "track", "trackCommand", "trackBehavior", "trackError",
                  "trackPerformance", "trackAI", "trackMCP" }

\* Methods of the PostHog client.
ClientMethods == { "capture", "identify", "flush", "shutdown" }

NoCall == [op |-> "none", inst |-> 0, outcome |-> "returned", value |-> 0,
           prefRead |-> "notread", created |-> FALSE]

Returned(op, i) == [NoCall EXCEPT !.op = op, !.inst = i]

\* A service that is on unless the user opted out.
shouldEnableAnalytics_OptOut(readThrows) ==
  IF readThrows THEN FALSE ELSE enableAnalytics # "false"

\* shouldEnableAnalytics(): preferences.enableAnalytics === true, false when
\* reading the preferences throws.
shouldEnableAnalytics(readThrows) ==
  IF readThrows THEN FALSE ELSE enableAnalytics = "true"

\* What a read of the preference yielded.
PrefRead(readThrows) == IF readThrows THEN "threw" ELSE enableAnalytics

\* constructor: isEnabled is decided once; an enabled service creates its
\* client and tracks session_started (track() swallows a throwing capture).
NewInstance(readThrows) ==
  [ isEnabled |-> shouldEnableAnalytics(readThrows),
    prefRead  |-> PrefRead(readThrows),
    clientOps |-> IF shouldEnableAnalytics(readThrows) THEN { "capture" } ELSE {} ]

StartAnalytics ==
  /\ enableAnalytics \in PrefValues
  /\ apiKeyConfigured \in BOOLEAN
  /\ instances = <<>>
  /\ analyticsInstance = 0
  /\ lastCall = NoCall

IdleAnalytics ==
  /\ enableAnalytics = "false"
  /\ apiKeyConfigured = FALSE
  /\ instances = <<>>
  /\ analyticsInstance = 0
  /\ lastCall = NoCall

AnalyticsFrame ==
  UNCHANGED <<enableAnalytics, apiKeyConfigured, eslintVars, ciVars, deployVars,
              trackerVars, storageVars, apiVars, toolVars>>

\* new PostHogAnalytics(config), by a caller other than initializeAnalytics.
Construct ==
  /\ Len(instances) < MaxInstances
  /\ \E readThrows \in BOOLEAN :
       /\ instances' = Append(instances, NewInstance(readThrows))
       /\ lastCall' = [Returned("constructor", Len(instances) + 1) EXCEPT
                         !.prefRead = PrefRead(readThrows), !.created = TRUE]
  /\ UNCHANGED analyticsInstance
  /\ AnalyticsFrame

\* initializeAnalytics(): the cached instance, or null unless the preference
\* is exactly true and an API key is configured, or a new cached instance.
initializeAnalytics ==
  /\ \/ /\ analyticsInstance # 0
        /\ lastCall' = [Returned("initializeAnalytics", 0) EXCEPT
                          !.value = analyticsInstance]
        /\ UNCHANGED <<instances, analyticsInstance>>
     \/ /\ analyticsInstance = 0
        /\ \E readThrows \in BOOLEAN :
             IF readThrows \/ enableAnalytics # "true" \/ ~apiKeyConfigured
             THEN /\ lastCall' = [Returned("initializeAnalytics", 0) EXCEPT
                                    !.prefRead = PrefRead(readThrows)]
                  /\ UNCHANGED <<instances, analyticsInstance>>
             ELSE /\ Len(instances) < MaxInstances
                  /\ \E ctorReadThrows \in BOOLEAN :
                       instances' = Append(instances, NewInstance(ctorReadThrows))
                  /\ analyticsInstance' = Len(instances) + 1
                  /\ lastCall' = [Returned("initializeAnalytics", 0) EXCEPT
                                    !.value = Len(instances) + 1,
                                    !.prefRead = PrefRead(readThrows),
                                    !.created = TRUE]
  /\ AnalyticsFrame

\* The client methods one call of a service method invokes, in order, when
\* the service is enabled and nothing throws before them.
ClientUse(i, ops) ==
  instances' = [instances EXCEPT ![i].clientOps = @ \cup ops]

\* track(event) and the track* wrappers: nothing when disabled, else
\* client.capture inside try/catch.
Track(i, m) ==
  /\ i \in 1 .. Len(instances)
  /\ IF instances[i].isEnabled
     THEN ClientUse(i, { "capture" })
     ELSE UNCHANGED instances
  /\ lastCall' = Returned(m, i)
  /\ UNCHANGED analyticsInstance
  /\ AnalyticsFrame

\* setUserProperties(): nothing when disabled, else client.identify inside
\* try/catch.
setUserProperties(i) ==
  /\ i \in 1 .. Len(instances)
  /\ IF instances[i].isEnabled
     THEN ClientUse(i, { "identify" })
     ELSE UNCHANGED instances
  /\ lastCall' = Returned("setUserProperties", i)
  /\ UNCHANGED analyticsInstance
  /\ AnalyticsFrame

\* flush(): nothing when disabled, else await client.flush() inside
\* try/catch.
flush(i) ==
  /\ i \in 1 .. Len(instances)
  /\ IF instances[i].isEnabled
     THEN ClientUse(i, { "flush" })
     ELSE UNCHANGED instances
  /\ lastCall' = Returned("flush", i)
  /\ UNCHANGED analyticsInstance
  /\ AnalyticsFrame

\* shutdown(): nothing when disabled; else track session_ended, flush, and
\* await client.shutdown() outside any try/catch, so its throw propagates.
shutdown(i) ==
  /\ i \in 1 .. Len(instances)
  /\ IF instances[i].isEnabled
     THEN /\ ClientUse(i, { "capture", "flush", "shutdown" })
          /\ \E clientThrows \in BOOLEAN :
               lastCall' = [Returned("shutdown", i) EXCEPT
                              !.outcome = IF clientThrows THEN "threw" ELSE "returned"]
     ELSE /\ UNCHANGED instances
          /\ lastCall' = Returned("shutdown", i)
  /\ UNCHANGED analyticsInstance
  /\ AnalyticsFrame

(***************************************************************************)
(* scripts/publish.ts and scripts/blue-green-deploy.ts                     *)
(***************************************************************************)

\* Bound: extensions handed to one BlueGreenDeployment.
MaxExtensions == 2

ExtensionNames == { "ext-a", "ext-b" }

\* What validateExtension() finds on disk for an extension.
ExtensionStates ==
  { "no-directory", "no-package-json", "invalid-json", "missing-field", "ok" }

Step(step, ext, env, dryRun, ok) ==
  [step |-> step, extension |-> ext, environment |-> env, dryRun |-> dryRun, ok |-> ok]

\* validateExtension(): throws unless the directory and package.json exist,
\* package.json parses and has every required field.
ValidationError(ext, extState) ==
  CASE extState = "no-directory" -> "Extension not found"
    [] extState = "no-package-json" -> "package.json not found"
    [] extState = "invalid-json" -> "SyntaxError"
    [] extState = "missing-field" -> "Missing required field"
    [] extState = "ok" -> ""

\* publish(): validate, build, publish, each awaited in turn.  spawnSync
\* returns (it does not throw) when the build exits unsuccessfully, so the
\* build step never rejects; execSync throws when the publish command fails.
\* The publish command is the same for every environment.
PublisherRun(ext, env, dryRun, extState, buildOk, publishOk) ==
  LET validate == Step("validate", ext, env, dryRun, extState = "ok")
      build == Step("build", ext, env, dryRun, buildOk)
      publish == Step("publish", ext, env, dryRun, publishOk)
  IN  IF extState # "ok"
      THEN [steps |-> <<validate>>, error |-> ValidationError(ext, extState)]
      ELSE [steps |-> <<validate, build, publish>>,
            error |-> IF publishOk THEN "" ELSE "Raycast publishing failed"]

\* The command `npx @raycast/api@latest publish <extension>` ran for real.
IsStorePublish(c) == c.step = "publish" /\ ~c.dryRun

StartDeploy ==
  /\ extensions \in SeqsUpTo(ExtensionNames, MaxExtensions)
  /\ bgPc = "start"
  /\ bgIndex = 0
  /\ healthChecked = FALSE
  /\ commands = <<>>
  /\ rollbacks = 0
  /\ bgError = ""
  /\ bgRejection = ""

IdleDeploy ==
  /\ extensions = <<>>
  /\ bgPc = "start"
  /\ bgIndex = 0
  /\ healthChecked = FALSE
  /\ commands = <<>>
  /\ rollbacks = 0
  /\ bgError = ""
  /\ bgRejection = ""

DeployFrame ==
  UNCHANGED <<extensions, eslintVars, ciVars, analyticsVars, trackerVars, storageVars,
              apiVars, toolVars>>

\* deploy() is called and enters deployToGreen().
deploy ==
  /\ bgPc = "start"
  /\ bgPc' = "deployToGreen"
  /\ bgIndex' = 1
  /\ UNCHANGED <<healthChecked, commands, rollbacks, bgError, bgRejection>>
  /\ DeployFrame

\* One iteration of a for-of loop over the extensions: a new publisher for
\* `env`, awaited; its rejection leaves the loop for deploy()'s catch.
PublishLoop(pc, env, next) ==
  /\ bgPc = pc
  /\ IF bgIndex > Len(extensions)
     THEN /\ bgPc' = next
          /\ UNCHANGED <<bgIndex, commands, bgError>>
     ELSE \E extState \in ExtensionStates, buildOk \in BOOLEAN, publishOk \in BOOLEAN :
            LET run == PublisherRun(extensions[bgIndex], env, FALSE, extState,
                                    buildOk, publishOk)
            IN  /\ commands' = commands \o run.steps
                /\ IF run.error # ""
                   THEN /\ bgPc' = "catch"
                        /\ bgError' = run.error
                        /\ UNCHANGED bgIndex
                   ELSE /\ bgIndex' = bgIndex + 1
                        /\ UNCHANGED <<bgPc, bgError>>
  /\ UNCHANGED <<healthChecked, rollbacks, bgRejection>>
  /\ DeployFrame

\* deployToGreen(): publish every extension with environment "staging".
deployToGreen == PublishLoop("deployToGreen", "staging", "runHealthChecks")

\* runHealthChecks(): waits five seconds and reports success.
runHealthChecks ==
  /\ bgPc = "runHealthChecks"
  /\ healthChecked' = TRUE
  /\ bgPc' = "switchToGreen"
  /\ bgIndex' = 1
  /\ UNCHANGED <<commands, rollbacks, bgError, bgRejection>>
  /\ DeployFrame

\* switchToGreen(): publish every extension with environment "production".
switchToGreen == PublishLoop("switchToGreen", "production", "cleanupBlue")

\* cleanupBlue(): nothing; deploy() then resolves.
cleanupBlue ==
  /\ bgPc = "cleanupBlue"
  /\ bgPc' = "resolved"
  /\ UNCHANGED <<bgIndex, healthChecked, commands, rollbacks, bgError, bgRejection>>
  /\ DeployFrame

\* A catch block that rolls back and lets deploy() resolve.
rollback_NoRethrow ==
  /\ bgPc = "catch"
  /\ rollbacks' = rollbacks + 1
  /\ bgPc' = "resolved"
  /\ UNCHANGED <<bgIndex, healthChecked, commands, bgError, bgRejection>>
  /\ DeployFrame

\* catch (error) { await this.rollback(); throw error; }: rollback() only
\* logs, then deploy() rejects with the error it caught.
rollback ==
  /\ bgPc = "catch"
  /\ rollbacks' = rollbacks + 1
  /\ bgPc' = "rejected"
  /\ bgRejection' = bgError
  /\ UNCHANGED <<bgIndex, healthChecked, commands, bgError>>
  /\ DeployFrame

\* The publisher call that ran last rejected.
LastPublishFailed ==
  /\ commands # << >>
  /\ commands[Len(commands)].step \in { "validate", "publish" }
  /\ ~commands[Len(commands)].ok

(***************************************************************************)
(* lib/performance/tracker.ts                                              *)
(***************************************************************************)

\* Bound: recordMetric calls explored in one run.
MaxRecorded == 5

\* Bound: consecutive dispose() calls told apart.
MaxDisposeStreak == 3

\* Bound: times the memory monitor has fired on a tracker that has been
\* running for a while.
WarmTicks == 33

\* Bound: trackAsyncOperation calls explored in one run.
MaxOperations == 2

\* Keep only last 100 metrics in memory.
MetricLimit == 100

\* The handle setInterval returns to the constructor.
MonitorHandle == 1

TimerNames == { "command_search", "api_items" }

MemoryMetricNames == << "memory_heap_used", "memory_heap_total", "memory_rss" >>

Metric(name, source, seq) == [name |-> name, source |-> source, seq |-> seq]

TrackerCall(op, outcome, streak) == [op |-> op, outcome |-> outcome, streak |-> streak]

\* A trim that keeps the oldest 100 metrics.
KeepLast_Oldest(ms) ==
  IF Len(ms) > MetricLimit THEN SubSeq(ms, 1, MetricLimit) ELSE ms

\* metrics.slice(-100) once the array is longer than 100.
KeepLast(ms) ==
  IF Len(ms) > MetricLimit
  THEN SubSeq(ms, Len(ms) - MetricLimit + 1, Len(ms))
  ELSE ms

\* recordMetric applied to each of `names` in turn: push, hand the value to
\* analytics?.trackPerformance, trim.
RECURSIVE RecordAll(_, _, _, _)
RecordAll(ms, n, names, source) ==
  IF names = <<>> THEN ms
  ELSE RecordAll(KeepLast(Append(ms, Metric(Head(names), source, n + 1))),
                 n + 1, Tail(names), source)

\* What the tracker's recordMetric calls add to the events tracked.
TrackedBy(names) ==
  IF trackerAnalytics = "enabled"
  THEN trackedEvents \o [k \in 1 .. Len(names) |-> "performance_metrics"]
  ELSE trackedEvents

StartTracker ==
  /\ memoryMonitorInterval = MonitorHandle
  /\ scheduledIntervals = { MonitorHandle }
  /\ timers = {}
  /\ metrics = <<>>
  /\ recorded = 0
  /\ trackerAnalytics \in { "null", "disabled", "enabled" }
  /\ trackedEvents = <<>>
  /\ disposed = FALSE
  /\ lastTrackerCall = TrackerCall("constructor", "returned", 0)
  /\ operations = << >>

IdleTracker ==
  /\ memoryMonitorInterval = MonitorHandle
  /\ scheduledIntervals = { MonitorHandle }
  /\ timers = {}
  /\ metrics = <<>>
  /\ recorded = 0
  /\ trackerAnalytics = "null"
  /\ trackedEvents = <<>>
  /\ disposed = FALSE
  /\ lastTrackerCall = TrackerCall("constructor", "returned", 0)
  /\ operations = << >>

\* The names of the metrics the memory monitor records in `ticks` firings.
MonitorNames(ticks) ==
  [k \in 1 .. 3 * ticks |-> MemoryMetricNames[((k - 1) % 3) + 1]]

\* A tracker on which only the memory monitor has fired, WarmTicks times.
StartTrackerWarm ==
  /\ memoryMonitorInterval = MonitorHandle
  /\ scheduledIntervals = { MonitorHandle }
  /\ timers = {}
  /\ metrics = KeepLast([k \in 1 .. 3 * WarmTicks |->
                            Metric(MonitorNames(WarmTicks)[k], "monitor", k)])
  /\ recorded = 3 * WarmTicks
  /\ trackerAnalytics \in { "null", "disabled", "enabled" }
  /\ trackedEvents = IF trackerAnalytics = "enabled"
                     THEN [k \in 1 .. 3 * WarmTicks |-> "performance_metrics"]
                     ELSE << >>
  /\ disposed = FALSE
  /\ lastTrackerCall = TrackerCall("trackMemoryUsage", "returned", 0)
  /\ operations = << >>

RecordFrame ==
  UNCHANGED <<trackerAnalytics, eslintVars, ciVars, analyticsVars, deployVars,
              storageVars, apiVars, toolVars>>

TrackerFrame == RecordFrame /\ UNCHANGED operations

\* The number of recordMetric calls explored: MaxRecorded on a new tracker,
\* and as many again on a tracker that had been running for a while.
RecordCap ==
  IF recorded < 3 * WarmTicks THEN MaxRecorded ELSE 3 * WarmTicks + MaxRecorded

\* The recordMetric calls one operation makes.
Record(names, source) ==
  /\ recorded + Len(names) <= RecordCap
  /\ metrics' = RecordAll(metrics, recorded, names, source)
  /\ recorded' = recorded + Len(names)
  /\ trackedEvents' = TrackedBy(names)

\* A dispose() that drops the handle without clearing the interval.
dispose_KeepInterval ==
  /\ memoryMonitorInterval' = 0
  /\ timers' = {}
  /\ metrics' = <<>>
  /\ disposed' = TRUE
  /\ lastTrackerCall' =
       TrackerCall("dispose", "returned",
         IF lastTrackerCall.op = "dispose"
         THEN IF lastTrackerCall.streak < MaxDisposeStreak
              THEN lastTrackerCall.streak + 1 ELSE MaxDisposeStreak
         ELSE 1)
  /\ UNCHANGED <<scheduledIntervals, recorded, trackedEvents>>
  /\ TrackerFrame

\* dispose(): clearInterval and null the field when it is set, clear the
\* timers, empty the metrics.
dispose ==
  /\ IF memoryMonitorInterval # 0
     THEN /\ scheduledIntervals' = scheduledIntervals \ { memoryMonitorInterval }
          /\ memoryMonitorInterval' = 0
     ELSE UNCHANGED <<scheduledIntervals, memoryMonitorInterval>>
  /\ timers' = {}
  /\ metrics' = <<>>
  /\ disposed' = TRUE
  /\ lastTrackerCall' =
       TrackerCall("dispose", "returned",
         IF lastTrackerCall.op = "dispose"
         THEN IF lastTrackerCall.streak < MaxDisposeStreak
              THEN lastTrackerCall.streak + 1 ELSE MaxDisposeStreak
         ELSE 1)
  /\ UNCHANGED <<recorded, trackedEvents>>
  /\ TrackerFrame

\* startTimer(name)
startTimer(name) ==
  /\ timers' = timers \cup { name }
  /\ lastTrackerCall' = TrackerCall("startTimer", "returned", 0)
  /\ UNCHANGED <<memoryMonitorInterval, scheduledIntervals, metrics, recorded,
                 trackedEvents, disposed>>
  /\ TrackerFrame

\* endTimer(name): warns and returns 0 when the timer was not started, else
\* deletes it and records its duration.
endTimer(name) ==
  /\ IF name \notin timers
     THEN UNCHANGED <<timers, metrics, recorded, trackedEvents>>
     ELSE /\ timers' = timers \ { name }
          /\ Record(<<name>>, "timer")
  /\ lastTrackerCall' = TrackerCall("endTimer", "returned", 0)
  /\ UNCHANGED <<memoryMonitorInterval, scheduledIntervals, disposed>>
  /\ TrackerFrame

\* recordMetric(metric), called by a user of the tracker.
recordMetric ==
  /\ Record(<<"custom_metric">>, "caller")
  /\ lastTrackerCall' = TrackerCall("recordMetric", "returned", 0)
  /\ UNCHANGED <<memoryMonitorInterval, scheduledIntervals, timers, disposed>>
  /\ TrackerFrame

\* The interval's callback, every 30 seconds while it is scheduled:
\* trackMemoryUsage() records three metrics.
trackMemoryUsage ==
  /\ scheduledIntervals # {}
  /\ Record(MemoryMetricNames, "monitor")
  /\ lastTrackerCall' = TrackerCall("trackMemoryUsage", "returned", 0)
  /\ UNCHANGED <<memoryMonitorInterval, scheduledIntervals, timers, disposed>>
  /\ TrackerFrame

\* The functions handed to trackAsyncOperation: fn() returns a promise that
\* resolves or rejects (with an Error or another value), or throws.
AsyncFns ==
  { [does |-> "resolve", with |-> "result"],
    [does |-> "reject", with |-> "Error: failed"],
    [does |-> "reject", with |-> "not an Error"],
    [does |-> "throw", with |-> "Error: thrown"] }

\* A call that reports every operation as completed.
OperationEvent_AlwaysCompleted(fn) == "operation_completed"

\* The event trackAsyncOperation tracks: in the try block after fn
\* resolved, or in the catch block.
OperationEvent(fn) ==
  IF fn.does = "resolve" THEN "operation_completed" ELSE "operation_failed"

\* A trackAsyncOperation call awaiting fn().
Awaiting(name, fn) ==
  [ name |-> name, fn |-> fn, pc |-> "awaiting",
    outcome |-> [kind |-> "pending", with |-> ""], timerLeft |-> TRUE ]

\* The same call once it has settled: it returns fn's result or throws the
\* error it caught; timerLeft tells whether the name still has a timer.
Settled(op, timersAfter) ==
  [ op EXCEPT !.pc = "settled",
              !.outcome = [kind |-> IF op.fn.does = "resolve" THEN "resolved" ELSE "rejected",
                           with |-> op.fn.with],
              !.timerLeft = op.name \in timersAfter ]

\* What trackAsyncOperation does once fn() has settled, in the try block or
\* the catch block: endTimer(name) (which records a metric when the timer is
\* still there), then analytics?.track of the operation's event.
Settle(name, fn, timersBefore) ==
  /\ timers' = timersBefore \ { name }
  /\ IF name \in timersBefore
     THEN /\ recorded + 1 <= RecordCap
          /\ metrics' = RecordAll(metrics, recorded, << name >>, "timer")
          /\ recorded' = recorded + 1
     ELSE UNCHANGED <<metrics, recorded>>
  /\ trackedEvents' =
       IF trackerAnalytics = "enabled"
       THEN TrackedBy(IF name \in timersBefore THEN << name >> ELSE << >>)
              \o << OperationEvent(fn) >>
       ELSE trackedEvents

\* trackAsyncOperation(name, fn), reached through trackCommandPerformance,
\* trackAPIPerformance, trackAIPerformance and trackMCPPerformance, up to
\* its await: startTimer(name), then fn(); a throwing fn lands in the catch
\* block at once.
trackAsyncOperation(name, fn) ==
  /\ Len(operations) < MaxOperations
  /\ IF fn.does = "throw"
     THEN /\ Settle(name, fn, timers \cup { name })
          /\ operations' = Append(operations, Settled(Awaiting(name, fn), timers \ { name }))
          /\ lastTrackerCall' = TrackerCall("trackAsyncOperation", "threw", 0)
     ELSE /\ timers' = timers \cup { name }
          /\ operations' = Append(operations, Awaiting(name, fn))
          /\ lastTrackerCall' = TrackerCall("trackAsyncOperation", "awaiting", 0)
          /\ UNCHANGED <<metrics, recorded, trackedEvents>>
  /\ UNCHANGED <<memoryMonitorInterval, scheduledIntervals, disposed>>
  /\ RecordFrame

\* fn()'s promise settles and trackAsyncOperation call k continues.
OperationSettled(k) ==
  /\ k \in 1 .. Len(operations)
  /\ operations[k].pc = "awaiting"
  /\ Settle(operations[k].name, operations[k].fn, timers)
  /\ operations' = [operations EXCEPT
                      ![k] = Settled(operations[k], timers \ { operations[k].name })]
  /\ lastTrackerCall' = TrackerCall("trackAsyncOperation", "settled", 0)
  /\ UNCHANGED <<memoryMonitorInterval, scheduledIntervals, disposed>>
  /\ RecordFrame

\* The number of times event e was handed to the analytics service.
Tracked(e) == Cardinality({ k \in 1 .. Len(trackedEvents) : trackedEvents[k] = e })

\* The settled trackAsyncOperation calls whose fn did `does`.
SettledOperations(does) ==
  { k \in 1 .. Len(operations) :
      operations[k].pc = "settled" /\ operations[k].fn.does \in does }

(***************************************************************************)
(* src/hooks/useStorage.ts                                                 *)
(***************************************************************************)

\* Bound: updateValue calls made on one mounted hook.
MaxUpdates == 2

StorageKey == "test-key"

\* The values of T explored: the objects { name: ... }, named by their name,
\* and an object that refers to itself.
Values == { "Default", "Initial", "Updated", "Circular" }

\* What JSON.stringify does with a value that has no JSON text.
TypeError == "<TypeError>"

\* JSON.stringify(value)
JSONstringify(v) ==
  CASE v = "Default" -> "{\"name\":\"Default\"}"
    [] v = "Initial" -> "{\"name\":\"Initial\"}"
    [] v = "Updated" -> "{\"name\":\"Updated\"}"
    [] v = "Circular" -> TypeError

Serialisable(v) == JSONstringify(v) # TypeError

\* What getItem resolves with when the key holds nothing.
Absent == "<undefined>"

\* Texts the key can hold: JSON written by the hook, the empty string, or
\* text that is not JSON.
StoredTexts == { JSONstringify(v) : v \in { w \in Values : Serialisable(w) } }
               \cup { "", "{name" }

\* JSON.parse(text): the value, or a SyntaxError.
JSONparse(text) ==
  CASE text = "{\"name\":\"Default\"}" -> [ok |-> TRUE, value |-> "Default"]
    [] text = "{\"name\":\"Initial\"}" -> [ok |-> TRUE, value |-> "Initial"]
    [] text = "{\"name\":\"Updated\"}" -> [ok |-> TRUE, value |-> "Updated"]
    [] OTHER -> [ok |-> FALSE, value |-> "SyntaxError"]

\* if (stored)
Truthy(stored) == stored # Absent /\ stored # ""

NotRead == [kind |-> "pending", text |-> Absent]

StartStorage ==
  /\ storage \in StoredTexts \cup { Absent }
  /\ defaultValue \in { "Default", "Initial" }
  /\ value = defaultValue
  /\ isLoading = TRUE
  /\ loadPc = "mounted"
  /\ loadResult = NotRead
  /\ updates = <<>>
  /\ setItemCalls = <<>>

IdleStorage ==
  /\ storage = Absent
  /\ defaultValue = "Default"
  /\ value = "Default"
  /\ isLoading = TRUE
  /\ loadPc = "mounted"
  /\ loadResult = NotRead
  /\ updates = <<>>
  /\ setItemCalls = <<>>

StorageFrame ==
  UNCHANGED <<defaultValue, eslintVars, ciVars, analyticsVars, deployVars, trackerVars,
              apiVars, toolVars>>

\* useEffect(() => { loadValue() }, [key]) after the first render:
\* loadValue() calls LocalStorage.getItem(key) and awaits it.
loadValue ==
  /\ loadPc = "mounted"
  /\ loadPc' = "getItem"
  /\ UNCHANGED <<storage, value, isLoading, loadResult, updates, setItemCalls>>
  /\ StorageFrame

\* The host serves the getItem request: it reads what the key holds then,
\* or fails.
GetItemServed ==
  /\ loadPc = "getItem"
  /\ \E fails \in BOOLEAN :
       loadResult' = IF fails THEN [kind |-> "error", text |-> Absent]
                     ELSE [kind |-> "value", text |-> storage]
  /\ loadPc' = "served"
  /\ UNCHANGED <<storage, value, isLoading, updates, setItemCalls>>
  /\ StorageFrame

\* A loadValue() without its finally block: isLoading is cleared only when
\* nothing threw.
LoadSettled_NoFinally ==
  /\ loadPc = "served"
  /\ loadPc' = "settled"
  /\ IF loadResult.kind = "value" /\ Truthy(loadResult.text)
        /\ JSONparse(loadResult.text).ok
     THEN value' = JSONparse(loadResult.text).value
     ELSE UNCHANGED value
  /\ isLoading' = IF loadResult.kind = "error"
                     \/ (Truthy(loadResult.text) /\ ~JSONparse(loadResult.text).ok)
                  THEN isLoading ELSE FALSE
  /\ UNCHANGED <<storage, loadResult, updates, setItemCalls>>
  /\ StorageFrame

\* The getItem promise settles and loadValue() continues: a truthy stored
\* text is parsed into value, a rejected read or a SyntaxError is logged,
\* and finally isLoading becomes false.
LoadSettled ==
  /\ loadPc = "served"
  /\ loadPc' = "settled"
  /\ IF loadResult.kind = "value" /\ Truthy(loadResult.text)
        /\ JSONparse(loadResult.text).ok
     THEN value' = JSONparse(loadResult.text).value
     ELSE UNCHANGED value
  /\ isLoading' = FALSE
  /\ UNCHANGED <<storage, loadResult, updates, setItemCalls>>
  /\ StorageFrame

\* An updateValue call: awaiting setItem, or already in its catch block
\* when JSON.stringify threw; written tells whether the host stored its text.
Update(arg) ==
  [ arg |-> arg, pc |-> IF Serialisable(arg) THEN "setItem" ELSE "failed",
    afterLoad |-> loadPc = "settled", valueWhenResolved |-> arg, laterCalls |-> 0,
    written |-> FALSE ]

\* The setItem call updateValue call k makes, if it makes one.
SetItemBy(k, arg) ==
  IF Serialisable(arg)
  THEN << [call |-> k, key |-> StorageKey, text |-> JSONstringify(arg)] >>
  ELSE << >>

\* The setItem calls updateValue call k made.
SetItemCallsOf(k) == SelectSeq(setItemCalls, LAMBDA c : c.call = k)

\* An updateValue that writes to storage but leaves the state alone.
updateValue_NoSetValue(newValue) ==
  /\ Len(updates) < MaxUpdates
  /\ updates' = Append(updates, Update(newValue))
  /\ setItemCalls' = setItemCalls \o SetItemBy(Len(updates) + 1, newValue)
  /\ UNCHANGED <<storage, value, isLoading, loadPc, loadResult>>
  /\ StorageFrame

\* updateValue(newValue) up to its await: setValue(newValue), then
\* LocalStorage.setItem(key, JSON.stringify(newValue)); a throwing
\* JSON.stringify is caught before setItem is called.
updateValue(newValue) ==
  /\ Len(updates) < MaxUpdates
  /\ value' = newValue
  /\ updates' = Append(updates, Update(newValue))
  /\ setItemCalls' = setItemCalls \o SetItemBy(Len(updates) + 1, newValue)
  /\ UNCHANGED <<storage, isLoading, loadPc, loadResult>>
  /\ StorageFrame

\* The host serves a setItem request: it stores the text, or fails.
SetItemServed(k) ==
  /\ k \in 1 .. Len(updates)
  /\ updates[k].pc = "setItem"
  /\ \E fails \in BOOLEAN :
       IF fails
       THEN /\ updates' = [updates EXCEPT ![k].pc = "failed"]
            /\ UNCHANGED storage
       ELSE /\ updates' = [updates EXCEPT ![k].pc = "stored", ![k].written = TRUE]
            /\ storage' = SetItemCallsOf(k)[1].text
  /\ UNCHANGED <<value, isLoading, loadPc, loadResult, setItemCalls>>
  /\ StorageFrame

\* The setItem promise settles and updateValue() resolves (a rejection is
\* caught and logged).
UpdateResolved(k) ==
  /\ k \in 1 .. Len(updates)
  /\ updates[k].pc \in { "stored", "failed" }
  /\ updates' = [updates EXCEPT ![k].pc = "resolved",
                                ![k].valueWhenResolved = value,
                                ![k].laterCalls = Len(updates) - k]
  /\ UNCHANGED <<storage, value, isLoading, loadPc, loadResult, setItemCalls>>
  /\ StorageFrame

(***************************************************************************)
(* src/hooks/useAPI.ts                                                     *)
(***************************************************************************)

\* Bound: refetch() calls made on one mounted hook.
MaxRefetchCalls == 3

\* null
Null == [kind |-> "null", text |-> ""]

\* The Error objects and other values a fetcher can reject with or throw.
Rejections ==
  { [kind |-> "Error", text |-> "API Error"],
    [kind |-> "Error", text |-> "Network down"],
    [kind |-> "string", text |-> "timeout"],
    [kind |-> "number", text |-> "404"] }

\* The results a fetcher can resolve with.
Results ==
  { [kind |-> "result", text |-> "Test Item"],
    [kind |-> "result", text |-> "Other Item"] }

\* A fetcher resolves with a result, rejects, or throws before returning a
\* promise.
Fetchers ==
  { [does |-> "resolve", with |-> r] : r \in Results }
  \cup { [does |-> "reject", with |-> e] : e \in Rejections }
  \cup { [does |-> "throw", with |-> e] : e \in Rejections }

\* err instanceof Error ? err : new Error(String(err))
ToError(err) ==
  IF err.kind = "Error" THEN err ELSE [kind |-> "Error", text |-> err.text]

StartAPI ==
  /\ fetcher \in Fetchers
  /\ data = Null
  /\ apiIsLoading = TRUE
  /\ error = Null
  /\ apiPc = "mounted"
  /\ fetcherCalls = 0
  /\ toasts = 0
  /\ refetchCalls = <<>>

IdleAPI ==
  /\ fetcher = [does |-> "resolve", with |-> [kind |-> "result", text |-> "Test Item"]]
  /\ data = Null
  /\ apiIsLoading = TRUE
  /\ error = Null
  /\ apiPc = "mounted"
  /\ fetcherCalls = 0
  /\ toasts = 0
  /\ refetchCalls = <<>>

APIFrame ==
  UNCHANGED <<fetcher, eslintVars, ciVars, analyticsVars, deployVars, trackerVars,
              storageVars, toolVars>>

\* The catch block up to its await: setError(error) and showToast(...).
Catch(err) ==
  /\ error' = ToError(err)
  /\ toasts' = toasts + 1
  /\ apiPc' = "showToast"
  /\ UNCHANGED <<data, apiIsLoading>>

\* useEffect(() => { ...; fetchData() }, []) after the first render:
\* fetchData() sets isLoading, calls the fetcher and awaits it; a fetcher
\* that throws lands in the catch block at once.
fetchData ==
  /\ apiPc = "mounted"
  /\ fetcherCalls' = fetcherCalls + 1
  /\ IF fetcher.does = "throw"
     THEN Catch(fetcher.with)
     ELSE /\ apiPc' = "fetcher"
          /\ apiIsLoading' = TRUE
          /\ UNCHANGED <<data, error, toasts>>
  /\ UNCHANGED refetchCalls
  /\ APIFrame

\* The fetcher's promise settles and fetchData() continues: on a result
\* setData, setError(null) and finally setIsLoading(false); on a rejection
\* the catch block.
FetcherSettled ==
  /\ apiPc = "fetcher"
  /\ IF fetcher.does = "resolve"
     THEN /\ data' = fetcher.with
          /\ error' = Null
          /\ apiIsLoading' = FALSE
          /\ apiPc' = "done"
          /\ UNCHANGED toasts
     ELSE Catch(fetcher.with)
  /\ UNCHANGED <<fetcherCalls, refetchCalls>>
  /\ APIFrame

\* The toast that lets isLoading stand.
ToastSettled_NoFinally ==
  /\ apiPc = "showToast"
  /\ apiPc' = "done"
  /\ UNCHANGED <<data, apiIsLoading, error, fetcherCalls, toasts, refetchCalls>>
  /\ APIFrame

\* showToast settles (resolved or rejected) and the finally block runs:
\* setIsLoading(false).
ToastSettled ==
  /\ apiPc = "showToast"
  /\ apiIsLoading' = FALSE
  /\ apiPc' = "done"
  /\ UNCHANGED <<data, error, fetcherCalls, toasts, refetchCalls>>
  /\ APIFrame

\* refetch: () => fetchData().  fetchData is declared inside the effect
\* callback and is not in scope in the hook body, so the call throws a
\* ReferenceError before anything else happens.
refetch ==
  /\ Len(refetchCalls) < MaxRefetchCalls
  /\ refetchCalls' = Append(refetchCalls,
       [outcome |-> "ReferenceError", settledBefore |-> apiPc = "done",
        fetcherCallsBefore |-> fetcherCalls])
  /\ UNCHANGED <<data, apiIsLoading, error, apiPc, fetcherCalls, toasts>>
  /\ APIFrame

\* The fetcher has settled (or thrown).
FetcherHasSettled == apiPc \in { "showToast", "done" }

(***************************************************************************)
(* scripts/validate-commit-msg.ts                                          *)
(***************************************************************************)

\* The set of characters of a string, each a string of length one.
CharSet(s) == { SubSeq(s, i, i) : i \in 1 .. Len(s) }

LowerCaseLetters == "abcdefghijklmnopqrstuvwxyz"
UpperCaseLetters == "ABCDEFGHIJKLMNOPQRSTUVWXYZ"

\* \w
WordChars == CharSet(LowerCaseLetters) \cup CharSet(UpperCaseLetters)
             \cup CharSet("0123456789_")

\* [\w-]
ScopeChars == WordChars \cup { "-" }

\* The line terminators, which `.` does not match.
LineTerminators == { "\n", "\r" }

\* The white space String.prototype.trim removes.
WhiteSpace == { " ", "\t" } \cup LineTerminators

\* The character at position i, "" past the end.
CharAt(s, i) == IF i \in 1 .. Len(s) THEN SubSeq(s, i, i) ELSE ""

\* c.toLowerCase() for one character.
toLowerCase(c) ==
  IF c \in CharSet(UpperCaseLetters)
  THEN CharAt(LowerCaseLetters, CHOOSE i \in 1 .. 26 : CharAt(UpperCaseLetters, i) = c)
  ELSE c

\* message.trim()
trim(s) ==
  LET kept == { i \in 1 .. Len(s) : CharAt(s, i) \notin WhiteSpace }
  IN  IF kept = {} THEN ""
      ELSE SubSeq(s, CHOOSE i \in kept : \A j \in kept : i <= j,
                     CHOOSE i \in kept : \A j \in kept : j <= i)

\* The number of consecutive characters of s from position i on that are
\* in class (a greedy + or *).
RECURSIVE Run(_, _, _)
Run(s, i, class) ==
  IF i <= Len(s) /\ CharAt(s, i) \in class THEN 1 + Run(s, i + 1, class) ELSE 0

\* /^(\w+)(\(([\w-]+)\))?: (.{1,})$/ when bang is "", and
\* /^(\w+)(\(([\w-]+)\))?!: (.{1,})$/ when bang is "!": the match with its
\* groups 1, 3 and 4 (an unmatched group 3 is undefined, here "").
Match(s, bang) ==
  LET typeLen == Run(s, 1, WordChars)
      scopeLen == IF CharAt(s, typeLen + 1) = "(" THEN Run(s, typeLen + 2, ScopeChars)
                  ELSE 0
      hasScope == /\ CharAt(s, typeLen + 1) = "("
                  /\ scopeLen >= 1
                  /\ CharAt(s, typeLen + 2 + scopeLen) = ")"
      sepAt == IF hasScope THEN typeLen + scopeLen + 3 ELSE typeLen + 1
      sep == bang \o ": "
      descAt == sepAt + Len(sep)
      matches == /\ typeLen >= 1
                 /\ descAt <= Len(s)
                 /\ SubSeq(s, sepAt, descAt - 1) = sep
                 /\ \A i \in descAt .. Len(s) : CharAt(s, i) \notin LineTerminators
  IN  IF matches
      THEN [ matches |-> TRUE,
             type |-> SubSeq(s, 1, typeLen),
             scope |-> IF hasScope THEN SubSeq(s, typeLen + 2, typeLen + 1 + scopeLen)
                       ELSE "",
             description |-> SubSeq(s, descAt, Len(s)) ]
      ELSE [ matches |-> FALSE, type |-> "", scope |-> "", description |-> "" ]

commitMsgPattern(s) == Match(s, "")
breakingChangePattern(s) == Match(s, "!")

\* const config: CommitMessageConfig
config ==
  [ types |-> { "feat", "fix", "docs", "style", "refactor", "perf", "test", "chore",
                "ci", "build", "revert" },
    scopes |-> { "core", "ui", "api", "auth", "config", "deps", "docs", "test", "ci",
                 "release" },
    maxLength |-> 100,
    minLength |-> 10 ]

\* errors.push(text) when the condition holds
PushIf(condition, text) == IF condition THEN << text >> ELSE << >>

\* CommitMessageValidator.validate(message); each error is named by the
\* start of its text.
validate(message) ==
  LET trimmedMessage == trim(message)
      lengthErrors ==
        PushIf(Len(trimmedMessage) < config.minLength, "Commit message too short")
        \o PushIf(Len(trimmedMessage) > config.maxLength, "Commit message too long")
      isBreakingChange == breakingChangePattern(trimmedMessage).matches
      isNormalCommit == commitMsgPattern(trimmedMessage).matches
      match == IF isBreakingChange THEN breakingChangePattern(trimmedMessage)
               ELSE commitMsgPattern(trimmedMessage)
      description == match.description
      errors ==
        lengthErrors
        \o PushIf(match.type \notin config.types, "Invalid commit type")
        \o PushIf(match.scope # "" /\ match.scope \notin config.scopes, "Invalid scope")
        \o IF description = "" \/ Len(trim(description)) = 0
           THEN << "Commit description is required" >>
           ELSE PushIf(CharAt(description, 1) # toLowerCase(CharAt(description, 1)),
                       "Commit description should start with lowercase letter")
                \o PushIf(CharAt(description, Len(description)) = ".",
                          "Commit description should not end with period")
  IN  IF ~isBreakingChange /\ ~isNormalCommit
      THEN [ valid |-> FALSE,
             errors |-> lengthErrors \o << "Commit message format is invalid" >> ]
      ELSE [ valid |-> errors = << >>, errors |-> errors ]

\* CommitMessageValidator.getExamples()
getExamples ==
  << "feat(auth): add OAuth2 authentication",
     "fix(api): resolve timeout issue in user endpoint",
     "docs(readme): update installation instructions",
     "style(ui): fix button alignment",
     "refactor(core): simplify error handling logic",
     "perf(api): optimize database queries",
     "test(auth): add unit tests for login flow",
     "chore(deps): update dependencies",
     "ci(github): add automated testing workflow",
     "feat!: remove deprecated API endpoints" >>

\* Commit messages written by hand: a type, an optional scope, a separator
\* and a description, with or without the newline an editor appends.
WrittenMessages ==
  { type \o scope \o sep \o description \o end :
      type \in { "feat", "docs", "wip" },
      scope \in { "", "(auth)", "(readme)", "(my scope)", "()" },
      sep \in { ": ", "!: ", ":" },
      description \in { "add OAuth2 authentication", "Add login", "fix typo.", "x",
                        "add login\n\nCloses #12" },
      end \in { "", "\n" } }

\* The commit message files the script is run on.
CommitMessages ==
  WrittenMessages
  \cup { getExamples[k] \o end : k \in 1 .. Len(getExamples), end \in { "", "\n" } }

NotValidated == [ valid |-> FALSE, errors |-> << "not validated" >> ]

\* The script has not exited.
Running == -1

StartValidator ==
  /\ commitMessage \in CommitMessages
  /\ validation = NotValidated
  /\ exitCode = Running
  /\ printedExamples = << >>

IdleValidator ==
  /\ commitMessage = ""
  /\ validation = NotValidated
  /\ exitCode = Running
  /\ printedExamples = << >>

\* The CLI interface on a readable commit message file: validate it, exit 0
\* when it is valid, else print the errors and the examples and exit 1.
ValidateCommitMsg ==
  /\ exitCode = Running
  /\ validation' = validate(commitMessage)
  /\ exitCode' = IF validate(commitMessage).valid THEN 0 ELSE 1
  /\ printedExamples' = IF validate(commitMessage).valid THEN << >> ELSE getExamples
  /\ UNCHANGED <<commitMessage, eslintVars, ciVars, analyticsVars, deployVars,
                 trackerVars, storageVars, apiVars, updaterVars, publisherVars,
                 alertVars, gateVars>>

(***************************************************************************)
(* scripts/update-dependencies.ts                                          *)
(***************************************************************************)

\* Bound: packages `bun outdated` reports in one run.
MaxOutdated == 2

\* A strategy that also updates across major versions on its own.
updateStrategy_MajorAuto == [major |-> "auto", minor |-> "auto", patch |-> "auto"]

\* private updateStrategy
updateStrategy == [major |-> "manual", minor |-> "auto", patch |-> "auto"]

\* What semver.diff(current, latest) can return for an outdated package
\* ("null" for versions that compare equal).
Diffs == { "major", "minor", "patch", "premajor", "prerelease", "null" }

\* The packages `bun outdated --json` can report, told apart by the release
\* type between their current and latest versions.
OutdatedPackages == { [name |-> "pkg-" \o d, diff |-> d] : d \in Diffs }

\* The callback of filterUpdates' filter.
IsAutoUpdate(pkg) ==
  CASE pkg.diff = "major" -> updateStrategy.major = "auto"
    [] pkg.diff = "minor" -> updateStrategy.minor = "auto"
    [] pkg.diff = "patch" -> updateStrategy.patch = "auto"
    [] OTHER -> FALSE

\* getTargetVersion(pkg): which of the package's versions is the target.
getTargetVersion(pkg) ==
  CASE pkg.diff = "major" -> IF updateStrategy.major = "auto" THEN "latest" ELSE "wanted"
    [] pkg.diff = "minor" -> IF updateStrategy.minor = "auto" THEN "latest" ELSE "wanted"
    [] pkg.diff = "patch" -> "latest"
    [] OTHER -> "current"

\* filterUpdates(outdated): filter, then map each package to one with target.
filterUpdates(pkgs) ==
  LET kept == SelectSeq(pkgs, IsAutoUpdate)
  IN  [k \in 1 .. Len(kept) |->
         [name |-> kept[k].name, diff |-> kept[k].diff,
          target |-> getTargetVersion(kept[k])]]

\* The commands the script hands to execSync.
BunOutdated == [cmd |-> "bun outdated --json", name |-> "", target |-> ""]
BunAdd(pkg) == [cmd |-> "bun add", name |-> pkg.name, target |-> pkg.target]
BunTest == [cmd |-> "bun test", name |-> "", target |-> ""]
BunInstall == [cmd |-> "bun install", name |-> "", target |-> ""]

\* An updater that applies the updates whatever dryRun says.
AppliesUpdates_Always(dry) == TRUE

\* if (!dryRun)
AppliesUpdates(dry) == ~dry

StartUpdater ==
  /\ outdated \in SeqsUpTo(OutdatedPackages, MaxOutdated)
  /\ updateDryRun \in BOOLEAN
  /\ updaterPc = "idle"
  /\ toUpdate = << >>
  /\ updateIndex = 0
  /\ shell = << >>
  /\ updaterError = ""

IdleUpdater ==
  /\ outdated = << >>
  /\ updateDryRun = FALSE
  /\ updaterPc = "idle"
  /\ toUpdate = << >>
  /\ updateIndex = 0
  /\ shell = << >>
  /\ updaterError = ""

UpdaterFrame ==
  UNCHANGED <<outdated, updateDryRun, eslintVars, ciVars, analyticsVars, deployVars,
              trackerVars, storageVars, apiVars, validatorVars, publisherVars,
              alertVars, gateVars>>

\* catch (error) { console.error(...); throw error; }
UpdaterRejects(err) ==
  /\ updaterPc' = "rejected"
  /\ updaterError' = err

\* updateDependencies(dryRun) up to its first await after the updates are
\* chosen: getOutdatedPackages() runs `bun outdated --json` and parses its
\* output (either may throw), filterUpdates() picks the updates; the call
\* resolves when there are none or when this is a dry run.
updateDependencies ==
  /\ updaterPc = "idle"
  /\ shell' = Append(shell, BunOutdated)
  /\ \E readFails \in BOOLEAN :
       IF readFails
       THEN /\ UpdaterRejects("bun outdated failed")
            /\ UNCHANGED <<toUpdate, updateIndex>>
       ELSE /\ toUpdate' = filterUpdates(outdated)
            /\ updaterError' = ""
            /\ IF Len(filterUpdates(outdated)) = 0
               THEN updaterPc' = "resolved" /\ UNCHANGED updateIndex
               ELSE IF AppliesUpdates(updateDryRun)
                    THEN updaterPc' = "performUpdates" /\ updateIndex' = 1
                    ELSE updaterPc' = "resolved" /\ UNCHANGED updateIndex
  /\ UpdaterFrame

\* performUpdates(): one iteration of its loop runs `bun add name@target`,
\* which throws when the command fails.
performUpdates ==
  /\ updaterPc = "performUpdates"
  /\ IF updateIndex > Len(toUpdate)
     THEN /\ updaterPc' = "runTests"
          /\ UNCHANGED <<shell, updateIndex, updaterError>>
     ELSE /\ shell' = Append(shell, BunAdd(toUpdate[updateIndex]))
          /\ \E addFails \in BOOLEAN :
               IF addFails
               THEN UpdaterRejects("bun add failed") /\ UNCHANGED updateIndex
               ELSE updateIndex' = updateIndex + 1 /\ UNCHANGED <<updaterPc, updaterError>>
  /\ UNCHANGED toUpdate
  /\ UpdaterFrame

\* runTests(): `bun test`; a failure is logged and thrown again.
runTests ==
  /\ updaterPc = "runTests"
  /\ shell' = Append(shell, BunTest)
  /\ \E testsFail \in BOOLEAN :
       IF testsFail
       THEN UpdaterRejects("bun test failed")
       ELSE updaterPc' = "updateLockfile" /\ UNCHANGED updaterError
  /\ UNCHANGED <<toUpdate, updateIndex>>
  /\ UpdaterFrame

\* updateLockfile(): `bun install`; then updateDependencies() resolves.
updateLockfile ==
  /\ updaterPc = "updateLockfile"
  /\ shell' = Append(shell, BunInstall)
  /\ \E installFails \in BOOLEAN :
       IF installFails
       THEN UpdaterRejects("bun install failed")
       ELSE updaterPc' = "resolved" /\ UNCHANGED updaterError
  /\ UNCHANGED <<toUpdate, updateIndex>>
  /\ UpdaterFrame

(***************************************************************************)
(* scripts/publish.ts, one publish() call step by step                     *)
(***************************************************************************)

\* const requiredFields
requiredFields == << "name", "title", "description", "author", "license" >>

\* What package.json holds for a field: nothing, the empty string or text.
FieldValues == { "undefined", "", "text" }

\* What is on disk for the extension: its directory or not, and package.json
\* absent, not JSON, the JSON value null, or an object with these fields.
Disks ==
  { [directory |-> d, packageFile |-> f, packageJson |-> [x \in DOMAIN requiredFields |-> "text"]] :
      d \in BOOLEAN, f \in { "absent", "not-json", "null" } }
  \cup
  { [directory |-> TRUE, packageFile |-> "object", packageJson |-> p] :
      p \in [DOMAIN requiredFields -> FieldValues] }

\* A check that accepts an empty string.
IsMissing_OnlyUndefined(v) == v = "undefined"

\* !packageJson[field]
IsMissing(v) == v = "undefined" \/ v = ""

\* validateExtension(): the error it throws, "" when it returns.
ValidateExtensionError(d) ==
  LET missing == { k \in DOMAIN requiredFields : IsMissing(d.packageJson[k]) }
  IN  IF ~d.directory THEN "Extension not found"
      ELSE IF d.packageFile = "absent" THEN "package.json not found"
      ELSE IF d.packageFile = "not-json" THEN "SyntaxError"
      ELSE IF d.packageFile = "null" THEN "TypeError"
      ELSE IF missing # {}
      THEN "Missing required field: "
             \o requiredFields[CHOOSE k \in missing : \A j \in missing : k <= j]
      ELSE ""

\* How `bun nx build <extension>` can end under spawnSync, which returns in
\* each case: exit status 0, a non-zero status, or the process not spawned.
BuildResults == { "status 0", "status 1", "spawn error" }

StartPublisher ==
  /\ disk \in Disks
  /\ publishDryRun \in BOOLEAN
  /\ publishPc = "publish"
  /\ publishLog = << >>
  /\ buildResult = "none"
  /\ publishError = ""

IdlePublisher ==
  /\ disk = [directory |-> FALSE, packageFile |-> "absent",
             packageJson |-> [x \in DOMAIN requiredFields |-> "text"]]
  /\ publishDryRun = FALSE
  /\ publishPc = "publish"
  /\ publishLog = << >>
  /\ buildResult = "none"
  /\ publishError = ""

PublisherFrame ==
  UNCHANGED <<disk, publishDryRun, eslintVars, ciVars, analyticsVars, deployVars,
              trackerVars, storageVars, apiVars, validatorVars, updaterVars, alertVars,
              gateVars>>

\* publish() awaits validateExtension(), whose throw rejects publish().
validateExtension ==
  /\ publishPc = "publish"
  /\ publishLog' = Append(publishLog, "validate")
  /\ publishError' = ValidateExtensionError(disk)
  /\ publishPc' = IF ValidateExtensionError(disk) # "" THEN "rejected" ELSE "buildExtension"
  /\ UNCHANGED buildResult
  /\ PublisherFrame

\* publish() awaits buildExtension(): spawnSync runs the build and returns
\* its result, which is not looked at; nothing in the try block throws.
buildExtension ==
  /\ publishPc = "buildExtension"
  /\ publishLog' = Append(publishLog, "build")
  /\ buildResult' \in BuildResults
  /\ publishPc' = "publishToRaycast"
  /\ UNCHANGED publishError
  /\ PublisherFrame

\* publish() awaits publishToRaycast(): execSync runs the publish command
\* (with --dry-run when configured) and throws when it fails.
publishToRaycast ==
  /\ publishPc = "publishToRaycast"
  /\ publishLog' = Append(publishLog, IF publishDryRun THEN "publish --dry-run" ELSE "publish")
  /\ \E commandFails \in BOOLEAN :
       IF commandFails
       THEN publishPc' = "rejected" /\ publishError' = "Raycast publishing failed"
       ELSE publishPc' = "resolved" /\ UNCHANGED publishError
  /\ UNCHANGED buildResult
  /\ PublisherFrame

(***************************************************************************)
(* lib/alerts/alert-manager.ts                                             *)
(***************************************************************************)

\* Bound: checkAlerts calls explored in one run.
MaxChecks == 4

\* A metric the metrics object does not hold.
Undefined == -1

\* lastAlerts.get(ruleName) of a rule that has not triggered.
Never == -2

\* setupDefaultRules(): the rules in order, each with the metric its
\* condition reads and the value the metric must exceed.  Rates are in
\* thousandths (0.05 is 50), times in milliseconds, memory in bytes.
rules ==
  << [name |-> "high_error_rate", metric |-> "errorRate", above |-> 50, cooldown |-> 15],
     [name |-> "slow_response_time", metric |-> "avgResponseTime", above |-> 5000,
      cooldown |-> 30],
     [name |-> "memory_leak", metric |-> "memoryUsage", above |-> 500 * 1024 * 1024,
      cooldown |-> 10],
     [name |-> "ai_failure_rate", metric |-> "aiErrorRate", above |-> 100, cooldown |-> 20] >>

RuleNames == { rules[k].name : k \in DOMAIN rules }

\* The metrics objects handed to checkAlerts: each metric absent, exactly at
\* its rule's limit or just above it, in a few combinations.
MetricSamples ==
  { [errorRate |-> e, avgResponseTime |-> t, memoryUsage |-> m, aiErrorRate |-> a] :
      e \in { Undefined, 51 }, t \in { 5000, 5001 },
      m \in { 500 * 1024 * 1024, 500 * 1024 * 1024 + 1 }, a \in { 100 } }
  \cup
  { [errorRate |-> 50, avgResponseTime |-> Undefined, memoryUsage |-> Undefined,
     aiErrorRate |-> 101] }

\* The milliseconds between one checkAlerts call and the next.
Elapsed == { 299999, 300000, 600000 }

\* rule.condition(metrics): (metrics.x || 0) > limit
condition(rule, m) ==
  (IF m[rule.metric] = Undefined THEN 0 ELSE m[rule.metric]) > rule.above

\* A cooldown shared by all rules: skip while any rule is in its cooldown.
shouldSkipAlert_AnyRule(ruleName, cooldownMinutes) ==
  \E r \in RuleNames :
    lastAlerts[r] # Never /\ now' - lastAlerts[r] < cooldownMinutes * 60 * 1000

\* shouldSkipAlert(ruleName, cooldownMinutes), called at time now'.
shouldSkipAlert(ruleName, cooldownMinutes) ==
  /\ lastAlerts[ruleName] # Never
  /\ now' - lastAlerts[ruleName] < cooldownMinutes * 60 * 1000

StartAlerts ==
  /\ now = 0
  /\ lastAlerts = [r \in RuleNames |-> Never]
  /\ alertMetrics = [errorRate |-> Undefined, avgResponseTime |-> Undefined,
                     memoryUsage |-> Undefined, aiErrorRate |-> Undefined]
  /\ triggered = << >>
  /\ checks = 0

\* checkAlerts(metrics), called `elapsed` milliseconds after the previous
\* call: every rule that is not skipped and whose condition holds triggers
\* an alert and has its time in lastAlerts set.
checkAlerts(m, elapsed) ==
  /\ checks < MaxChecks
  /\ checks' = checks + 1
  /\ now' = now + elapsed
  /\ alertMetrics' = m
  /\ triggered' =
       LET fires == SelectSeq(rules, LAMBDA rule :
                      ~shouldSkipAlert(rule.name, rule.cooldown) /\ condition(rule, m))
       IN  [k \in 1 .. Len(fires) |-> fires[k].name]
  /\ lastAlerts' =
       [r \in RuleNames |->
          IF \E k \in DOMAIN rules :
               /\ rules[k].name = r
               /\ ~shouldSkipAlert(r, rules[k].cooldown)
               /\ condition(rules[k], m)
          THEN now' ELSE lastAlerts[r]]
  /\ UNCHANGED <<eslintVars, ciVars, analyticsVars, deployVars, trackerVars,
                 storageVars, apiVars, validatorVars, updaterVars, publisherVars,
                 gateVars>>

(***************************************************************************)
(* scripts/quality-gate.sh (the echoed lines without their emoji)          *)
(***************************************************************************)

\* The four commands in script order, each with the line echoed before it
\* and the line echoed when it fails.
qualityChecks ==
  << [echo |-> "Running tests...", command |-> "bun run test:coverage",
      failed |-> "Tests failed"],
     [echo |-> "Checking coverage thresholds...", command |-> "bun run coverage:check",
      failed |-> "Coverage below threshold"],
     [echo |-> "Running linting...", command |-> "bun run lint",
      failed |-> "Linting failed"],
     [echo |-> "Running type checking...", command |-> "bun run type-check",
      failed |-> "Type checking failed"] >>

\* The statuses a command can exit with: success and two kinds of failure.
ExitStatuses == { 0, 1, 2 }

\* A test that only notices status 1.
IsFailure_OnlyOne(status) == status = 1

\* if [ $? -ne 0 ]
IsFailure(status) == status # 0

StartGate ==
  /\ gateResults \in [DOMAIN qualityChecks -> ExitStatuses]
  /\ gateStep = 1
  /\ gateRan = << >>
  /\ gateOutput = << "Running quality checks..." >>
  /\ gateExit = Running

IdleGate ==
  /\ gateResults = [k \in DOMAIN qualityChecks |-> 0]
  /\ gateStep = 1
  /\ gateRan = << >>
  /\ gateOutput = << "Running quality checks..." >>
  /\ gateExit = Running

\* One block of the script: echo, run the command, test $? and either echo
\* the failure and exit 1 or go on to the next block.
RunQualityCheck ==
  /\ gateExit = Running
  /\ gateStep \in DOMAIN qualityChecks
  /\ gateRan' = Append(gateRan, qualityChecks[gateStep].command)
  /\ IF IsFailure(gateResults[gateStep])
     THEN /\ gateOutput' = gateOutput \o << qualityChecks[gateStep].echo,
                                            qualityChecks[gateStep].failed >>
          /\ gateExit' = 1
          /\ UNCHANGED gateStep
     ELSE /\ gateOutput' = Append(gateOutput, qualityChecks[gateStep].echo)
          /\ gateStep' = gateStep + 1
          /\ UNCHANGED gateExit
  /\ UNCHANGED <<gateResults, eslintVars, ciVars, analyticsVars, deployVars, trackerVars,
                 storageVars, apiVars, validatorVars, updaterVars, publisherVars,
                 alertVars>>

\* The last line of the script; the script then ends with echo's status.
AllChecksPassed ==
  /\ gateExit = Running
  /\ gateStep = Len(qualityChecks) + 1
  /\ gateOutput' = Append(gateOutput, "All quality checks passed!")
  /\ gateExit' = 0
  /\ UNCHANGED <<gateResults, gateStep, gateRan, eslintVars, ciVars, analyticsVars,
                 deployVars, trackerVars, storageVars, apiVars, validatorVars,
                 updaterVars, publisherVars, alertVars>>

IdleTools == IdleValidator /\ IdleUpdater /\ IdlePublisher /\ StartAlerts /\ IdleGate

(***************************************************************************)
(* Specifications                                                          *)
(***************************************************************************)

InitEslint == StartEslint /\ IdleCI /\ IdleAnalytics /\ IdleDeploy /\ IdleTracker
  /\ IdleStorage /\ IdleAPI /\ IdleTools
NextEslint == LoadEslintConfig
SpecEslint == InitEslint /\ [][NextEslint]_vars

InitCI == StartCI /\ IdleEslint /\ IdleAnalytics /\ IdleDeploy /\ IdleTracker
  /\ IdleStorage /\ IdleAPI /\ IdleTools
NextCI ==
  \/ \E j \in Jobs : StartJob(j)
  \/ \E j \in Jobs : FinishJob(j)
SpecCI == InitCI /\ [][NextCI]_vars

InitAnalytics == StartAnalytics /\ IdleEslint /\ IdleCI /\ IdleDeploy /\ IdleTracker
  /\ IdleStorage /\ IdleAPI /\ IdleTools
NextAnalytics ==
  \/ Construct
  \/ initializeAnalytics
  \/ \E i \in 1 .. MaxInstances, m \in TrackMethods : Track(i, m)
  \/ \E i \in 1 .. MaxInstances : setUserProperties(i)
  \/ \E i \in 1 .. MaxInstances : flush(i)
  \/ \E i \in 1 .. MaxInstances : shutdown(i)
SpecAnalytics == InitAnalytics /\ [][NextAnalytics]_vars

InitDeploy == StartDeploy /\ IdleEslint /\ IdleCI /\ IdleAnalytics /\ IdleTracker
  /\ IdleStorage /\ IdleAPI /\ IdleTools
NextDeploy ==
  \/ deploy
  \/ deployToGreen
  \/ runHealthChecks
  \/ switchToGreen
  \/ cleanupBlue
  \/ rollback
SpecDeploy == InitDeploy /\ [][NextDeploy]_vars

InitTracker == StartTracker /\ IdleEslint /\ IdleCI /\ IdleAnalytics /\ IdleDeploy
  /\ IdleStorage /\ IdleAPI /\ IdleTools
NextTracker ==
  \/ dispose
  \/ \E name \in TimerNames : startTimer(name)
  \/ \E name \in TimerNames : endTimer(name)
  \/ recordMetric
  \/ trackMemoryUsage
SpecTracker == InitTracker /\ [][NextTracker]_vars

\* The tracker's calls on a tracker that has been running for a while.
InitTrackerWarm == StartTrackerWarm /\ IdleEslint /\ IdleCI /\ IdleAnalytics /\ IdleDeploy
  /\ IdleStorage /\ IdleAPI /\ IdleTools
SpecTrackerWarm == InitTrackerWarm /\ [][NextTracker]_vars

\* Tracked operations, which may overlap, next to dispose().
NextTrackerOperations ==
  \/ \E name \in TimerNames, fn \in AsyncFns : trackAsyncOperation(name, fn)
  \/ \E k \in 1 .. MaxOperations : OperationSettled(k)
  \/ dispose
SpecTrackerOperations == InitTracker /\ [][NextTrackerOperations]_vars

InitStorage ==
  StartStorage /\ IdleEslint /\ IdleCI /\ IdleAnalytics /\ IdleDeploy /\ IdleTracker
    /\ IdleAPI /\ IdleTools
NextStorage ==
  \/ loadValue
  \/ GetItemServed
  \/ LoadSettled
  \/ \E v \in Values : updateValue(v)
  \/ \E k \in 1 .. MaxUpdates : SetItemServed(k)
  \/ \E k \in 1 .. MaxUpdates : UpdateResolved(k)
SpecStorage == InitStorage /\ [][NextStorage]_vars

InitAPI ==
  StartAPI /\ IdleEslint /\ IdleCI /\ IdleAnalytics /\ IdleDeploy /\ IdleTracker
    /\ IdleStorage /\ IdleTools
NextAPI ==
  \/ fetchData
  \/ FetcherSettled
  \/ ToastSettled
  \/ refetch
SpecAPI == InitAPI /\ [][NextAPI]_vars

\* The effect runs after the first render, and a showToast call settles; the
\* fetcher itself is free never to settle.
LiveSpecAPI ==
  SpecAPI /\ WF_vars(fetchData) /\ WF_vars(ToastSettled)

\* Everything outside the scripts at rest.
IdleApp ==
  IdleEslint /\ IdleCI /\ IdleAnalytics /\ IdleDeploy /\ IdleTracker /\ IdleStorage
    /\ IdleAPI

InitValidator == StartValidator /\ IdleApp /\ IdleUpdater /\ IdlePublisher /\ StartAlerts
  /\ IdleGate
NextValidator == ValidateCommitMsg
SpecValidator == InitValidator /\ [][NextValidator]_vars

InitUpdater == StartUpdater /\ IdleApp /\ IdleValidator /\ IdlePublisher /\ StartAlerts
  /\ IdleGate
NextUpdater ==
  \/ updateDependencies
  \/ performUpdates
  \/ runTests
  \/ updateLockfile
SpecUpdater == InitUpdater /\ [][NextUpdater]_vars

InitPublisher == StartPublisher /\ IdleApp /\ IdleValidator /\ IdleUpdater /\ StartAlerts
  /\ IdleGate
NextPublisher ==
  \/ validateExtension
  \/ buildExtension
  \/ publishToRaycast
SpecPublisher == InitPublisher /\ [][NextPublisher]_vars

InitAlerts == StartAlerts /\ IdleApp /\ IdleValidator /\ IdleUpdater /\ IdlePublisher
  /\ IdleGate
NextAlerts == \E m \in MetricSamples, elapsed \in Elapsed : checkAlerts(m, elapsed)
SpecAlerts == InitAlerts /\ [][NextAlerts]_vars

InitGate == StartGate /\ IdleApp /\ IdleValidator /\ IdleUpdater /\ IdlePublisher
  /\ StartAlerts
NextGate ==
  \/ RunQualityCheck
  \/ AllChecksPassed
SpecGate == InitGate /\ [][NextGate]_vars

(***************************************************************************)
(* Claims                                                                  *)
(***************************************************************************)

\* C1: the default export is the preset's entries in their original order
\* followed by exactly one more entry, whose only key is ignores and whose
\* globs are the seven workspace globs in source order.
C1_ExportIsPresetThenIgnores ==
  configLoaded =>
    /\ Len(exportedConfig) = Len(raycastConfig) + 1
    /\ SubSeq(exportedConfig, 1, Len(raycastConfig)) = raycastConfig
    /\ DOMAIN exportedConfig[Len(exportedConfig)] = { "ignores" }
    /\ exportedConfig[Len(exportedConfig)].ignores =
         << ".nx/**", "dist/**", "build/**", "node_modules/**",
            "**/*.bundle.js", "**/*.min.js", "**/*.generated.*" >>

\* C1 witness: a loaded config whose preset has several different entries.
C1_Witness ==
  /\ configLoaded
  /\ Len(raycastConfig) >= 3
  /\ raycastConfig[1] # raycastConfig[2]
  /\ raycastConfig[2] # raycastConfig[3]

\* C3: the 'Publish to Raycast Store' step executes only in runs whose ref
\* is refs/heads/main, whatever the trigger and the dispatch inputs.
C3_PublishOnlyOnMain == PublishStepRan => ref = RefMain

\* C4: deploy-production runs only when has-changes is true and build and
\* security-scan succeeded; build runs only after lint-and-typecheck and test
\* succeeded; so the publish step runs only when all four succeeded.
C4_PublishBehindAllGates ==
  /\ (job["deploy-production"] = "running" \/ stepsRun["deploy-production"] > 0) =>
       /\ hasChanges = "true"
       /\ job["build"] = "success"
       /\ job["security-scan"] = "success"
  /\ (job["build"] = "running" \/ stepsRun["build"] > 0) =>
       /\ job["lint-and-typecheck"] = "success"
       /\ job["test"] = "success"
  /\ PublishStepRan =>
       \A j \in { "setup", "lint-and-typecheck", "test", "build", "security-scan" } :
         job[j] = "success" /\ stepsRun[j] = NumSteps(j)

\* C4 witness: a run in which the publish step executed and succeeded.
C4_Witness ==
  /\ PublishStepRan
  /\ job["deploy-production"] = "success"

\* C2: analytics is opt-in.  A service constructed while the preference read
\* did not yield exactly true (or threw) has no client and never calls a
\* client method, whatever methods are called on it; and initializeAnalytics
\* returns null and constructs nothing when the preference is not exactly
\* true or reading it throws.
C2_OptIn ==
  /\ \A i \in 1 .. Len(instances) :
       instances[i].prefRead # "true" =>
         ~instances[i].isEnabled /\ instances[i].clientOps = {}
  /\ (lastCall.op = "initializeAnalytics"
        /\ (enableAnalytics # "true" \/ lastCall.prefRead = "threw")) =>
       /\ lastCall.value = 0
       /\ ~lastCall.created
       /\ analyticsInstance = 0

\* C2 witness: shutdown has just been called on a service constructed with a
\* truthy preference that is not the boolean true, after a null
\* initializeAnalytics result left no cached instance.
C2_Witness ==
  /\ enableAnalytics = "truthy"
  /\ lastCall.op = "shutdown"
  /\ lastCall.inst = 2
  /\ Len(instances) = 2
  /\ instances[1].prefRead = "threw"
  /\ instances[2].prefRead = "truthy"
  /\ analyticsInstance = 0

\* C5: BlueGreenDeployment.deploy publishes no extension to production (the
\* Raycast Store) until every extension has been deployed to green and the
\* health checks have completed; when deploying to green fails nothing is
\* published to production.
C5_NoProductionPublishBeforeHealthChecks ==
  (\E k \in 1 .. Len(commands) : IsStorePublish(commands[k])) => healthChecked

\* C6: after dispose() there is no memory-monitor interval (the field is
\* null and the runtime fires none), no timer and no metric; dispose()
\* returns normally however often it is called in a row and leaves that same
\* state; and once dispose() has been called the metrics never hold a metric
\* recorded by the memory monitor.
C6_DisposeCleansUp ==
  /\ lastTrackerCall.op = "dispose" =>
       /\ lastTrackerCall.outcome = "returned"
       /\ memoryMonitorInterval = 0
       /\ scheduledIntervals = {}
       /\ timers = {}
       /\ metrics = <<>>
  /\ disposed =>
       \A k \in 1 .. Len(metrics) : metrics[k].source # "monitor"

\* C6 witness: the third dispose() in a row, on a tracker whose monitor and
\* timers had recorded metrics before the first one.
C6_Witness ==
  /\ lastTrackerCall.op = "dispose"
  /\ lastTrackerCall.streak = 3
  /\ recorded >= 4

\* C7: isLoading is true from mount until the initial getItem settles and
\* false afterwards, also when the read or the parse failed; once it has
\* settled and no updateValue call was made, value is the value whose JSON
\* text the storage held, and defaultValue when the storage held nothing or
\* the read failed.
C7_LoadsStoredValueOrDefault ==
  /\ isLoading = (loadPc # "settled")
  /\ (loadPc = "settled" /\ updates = <<>>) =>
       /\ \A v \in Values :
            (loadResult.kind = "value" /\ loadResult.text = JSONstringify(v)) => value = v
       /\ (loadResult.kind = "error" \/ loadResult.text = Absent) => value = defaultValue

\* C7 witness: the load settled on a stored value other than the default.
C7_Witness ==
  /\ loadPc = "settled"
  /\ updates = <<>>
  /\ loadResult.kind = "value"
  /\ loadResult.text = JSONstringify("Updated")
  /\ value # defaultValue
  /\ ~isLoading

C9_RefetchCallsFetcherAgain ==
  \A k \in 1 .. Len(refetchCalls) :
    refetchCalls[k].settledBefore => fetcherCalls >= 2

C11_ExamplesAreValid ==
  (exitCode # Running /\ \E k \in 1 .. Len(getExamples) : commitMessage = getExamples[k]) =>
    /\ validation.valid
    /\ validation.errors = << >>
    /\ exitCode = 0

\* C12: updateDependencies(dryRun = true) makes no changes: whatever the
\* outdated packages, it never runs `bun add`, `bun test` or `bun install`.
C12_DryRunMakesNoChanges ==
  updateDryRun =>
    /\ \A k \in 1 .. Len(shell) : shell[k].cmd = "bun outdated --json"
    /\ updaterPc \in { "idle", "resolved", "rejected" }

\* C12 witness: a dry run that found two packages to update has resolved.
C12_Witness ==
  /\ updateDryRun
  /\ updaterPc = "resolved"
  /\ Len(toUpdate) = 2
  /\ toUpdate[1].diff # toUpdate[2].diff

\* C13: publish() rejects without running the build or the publish command
\* when the extension directory does not exist, when package.json does not
\* exist, or when package.json lacks or has an empty name, title,
\* description, author or license; and the steps run in the order validate,
\* build, publish, all three when publish() resolves.
C13_ValidationGuardsBuildAndPublish ==
  /\ (publishPc # "publish"
        /\ \/ ~disk.directory
           \/ disk.packageFile = "absent"
           \/ \E k \in 1 .. 5 : disk.packageJson[k] \in { "undefined", "" }) =>
       /\ publishPc = "rejected"
       /\ publishError \notin { "", "Raycast publishing failed" }
       /\ publishLog = << "validate" >>
  /\ \E n \in 0 .. 3 :
       publishLog = SubSeq(<< "validate", "build",
                              IF publishDryRun THEN "publish --dry-run" ELSE "publish" >>, 1, n)
  /\ publishPc = "resolved" => Len(publishLog) = 3

\* C13 witness: publish() rejected for a package.json whose only fault is
\* an empty license.
C13_Witness ==
  /\ publishPc = "rejected"
  /\ disk.packageFile = "object"
  /\ disk.packageJson = << "text", "text", "text", "text", "" >>
  /\ publishError = "Missing required field: license"

\* C14: when the build fails (bun nx build exits unsuccessfully), publish()
\* rejects with a 'Build failed for <extension>' error and the publish
\* command is never run.
C14_BuildFailureStopsPublish ==
  buildResult \in { "status 1", "spawn error" } =>
    /\ publishPc = "rejected"
    /\ publishError = "Build failed"
    /\ Len(publishLog) = 2

\* C15: when a step of deploy() fails (deploying to green or switching to
\* green; the health checks and the cleanup cannot fail), rollback() is
\* called exactly once and deploy() rejects with the error the step threw;
\* when every step succeeds deploy() resolves and rollback() is never called.
C15_RollbackOnceOnFailure ==
  /\ rollbacks <= 1
  /\ LastPublishFailed <=> bgPc \in { "catch", "rejected" }
  /\ bgPc = "rejected" =>
       /\ rollbacks = 1
       /\ bgRejection = bgError
       /\ IF commands[Len(commands)].step = "publish"
          THEN bgRejection = "Raycast publishing failed"
          ELSE \E st \in ExtensionStates \ { "ok" } :
                 bgRejection = ValidationError(commands[Len(commands)].extension, st)
  /\ bgPc # "rejected" => rollbacks = 0 /\ bgRejection = ""

\* C15 witness: deploy() rejected after one rollback because publishing the
\* second extension failed while switching to green.
C15_Witness ==
  /\ bgPc = "rejected"
  /\ rollbacks = 1
  /\ healthChecked
  /\ bgIndex = 2
  /\ commands[Len(commands)].environment = "production"
  /\ bgRejection = "Raycast publishing failed"

\* C16: the stages run in the documented order: the test job starts only
\* after lint-and-typecheck has completed, and the build job starts only
\* after the test job has completed.
C16_StagesInOrder ==
  /\ (job["test"] = "running" \/ stepsRun["test"] > 0) =>
       job["lint-and-typecheck"] \in Terminal
  /\ (job["build"] = "running" \/ stepsRun["build"] > 0) =>
       job["test"] \in Terminal

\* C17: the tracker keeps only the last 100 metrics: after any sequence of
\* recordMetric calls (direct, through endTimer or by the memory monitor)
\* it holds at most 100 metrics, and they are the most recently recorded
\* ones in recording order; all of them while dispose() was never called.
C17_KeepsLast100Metrics ==
  /\ Len(metrics) <= 100
  /\ \A k \in 1 .. Len(metrics) : metrics[k].seq = recorded - Len(metrics) + k
  /\ ~disposed => Len(metrics) = IF recorded < 100 THEN recorded ELSE 100

\* C17 witness: 104 metrics were recorded, the last ones by a timer and by
\* a caller on top of the memory monitor's, and 100 are held.
C17_Witness ==
  /\ recorded = 104
  /\ Len(metrics) = 100
  /\ metrics[1].seq = 5
  /\ metrics[1].source = "monitor"
  /\ metrics[99].source = "caller"
  /\ metrics[100].source = "timer"

\* C19: trackAsyncOperation is transparent: a settled call resolved with
\* fn's result when fn resolved and rejected with fn's error when fn
\* rejected or threw; with analytics enabled exactly one operation_completed
\* event was tracked per call whose fn resolved and exactly one
\* operation_failed event per call whose fn failed (none otherwise); and
\* when a call settles its operation name has no timer.
C19_TrackAsyncOperationTransparent ==
  /\ \A k \in 1 .. Len(operations) :
       operations[k].pc = "settled" =>
         /\ operations[k].outcome.kind =
              (IF operations[k].fn.does = "resolve" THEN "resolved" ELSE "rejected")
         /\ operations[k].outcome.with = operations[k].fn.with
         /\ ~operations[k].timerLeft
  /\ Tracked("operation_completed") =
       IF trackerAnalytics = "enabled"
       THEN Cardinality(SettledOperations({ "resolve" })) ELSE 0
  /\ Tracked("operation_failed") =
       IF trackerAnalytics = "enabled"
       THEN Cardinality(SettledOperations({ "reject", "throw" })) ELSE 0

\* C19 witness: with analytics enabled, two overlapping operations of the
\* same name have settled, the first resolved and the second rejected with
\* a value that is not an Error.
C19_Witness ==
  /\ trackerAnalytics = "enabled"
  /\ Len(operations) = 2
  /\ operations[1].name = operations[2].name
  /\ operations[1].outcome = [kind |-> "resolved", with |-> "result"]
  /\ operations[2].outcome = [kind |-> "rejected", with |-> "not an Error"]
  /\ recorded = 1
  /\ Tracked("operation_completed") = 1
  /\ Tracked("operation_failed") = 1

\* C18: in every checkAlerts call, a rule whose last alert is less than its
\* cooldown (15, 30, 10 and 20 minutes) old triggers no alert, whatever the
\* metrics; a rule that is not in its cooldown triggers exactly one alert
\* when its condition holds and none when it does not; whether another rule
\* is in its cooldown makes no difference.
C18_CooldownPerRule ==
  [][ \A r \in { [name |-> "high_error_rate", minutes |-> 15,
                   holds |-> alertMetrics'.errorRate > 50],
                  [name |-> "slow_response_time", minutes |-> 30,
                   holds |-> alertMetrics'.avgResponseTime > 5000],
                  [name |-> "memory_leak", minutes |-> 10,
                   holds |-> alertMetrics'.memoryUsage > 524288000],
                  [name |-> "ai_failure_rate", minutes |-> 20,
                   holds |-> alertMetrics'.aiErrorRate > 100] } :
        LET inCooldown == /\ lastAlerts[r.name] >= 0
                          /\ now' - lastAlerts[r.name] < r.minutes * 60000
            alerts == Cardinality({ k \in 1 .. Len(triggered') : triggered'[k] = r.name })
        IN  /\ inCooldown => alerts = 0 /\ lastAlerts'[r.name] = lastAlerts[r.name]
            /\ (~inCooldown /\ r.holds) => alerts = 1 /\ lastAlerts'[r.name] = now'
            /\ ~r.holds => alerts = 0
    ]_vars

\* C18 witness: a call made one millisecond before the end of
\* high_error_rate's cooldown, with its condition holding, triggered no
\* alert for it but one for memory_leak, whose own cooldown had just ended.
C18_Witness ==
  /\ alertMetrics.errorRate > 50
  /\ now - lastAlerts["high_error_rate"] = 15 * 60000 - 1
  /\ triggered = << "memory_leak" >>
  /\ checks >= 3

\* C20: an exception thrown by the PostHog client never leaves a
\* PostHogAnalytics method: every call of track, a track* wrapper,
\* setUserProperties, flush or shutdown returns to its caller.
C20_ClientFailuresNeverPropagate ==
  lastCall.op \in TrackMethods \cup { "setUserProperties", "flush", "shutdown" } =>
    lastCall.outcome = "returned"

\* C21: with the default strategy, once `bun outdated` has been read, the
\* packages filterUpdates chose are exactly the outdated packages whose
\* difference is minor or patch, in their order, each with its latest
\* version as target; a package with a major or any other difference is
\* never chosen, and `bun add` is run for chosen packages only.
C21_SelectsMinorAndPatchOnly ==
  LET auto == SelectSeq(outdated, LAMBDA pkg : pkg.diff \in { "minor", "patch" })
  IN  /\ (updaterPc # "idle" /\ updaterError # "bun outdated failed") =>
           /\ Len(toUpdate) = Len(auto)
           /\ \A k \in 1 .. Len(auto) :
                /\ toUpdate[k].name = auto[k].name
                /\ toUpdate[k].target = "latest"
      /\ \A k \in 1 .. Len(shell) :
           shell[k].cmd = "bun add" =>
             /\ shell[k].target = "latest"
             /\ \E j \in 1 .. Len(auto) : auto[j].name = shell[k].name

\* C21 witness: of a major and a minor update reported together, only the
\* minor one was chosen and installed at its latest version.
C21_Witness ==
  /\ Len(outdated) = 2
  /\ outdated[1].diff = "major"
  /\ outdated[2].diff = "minor"
  /\ updaterPc = "resolved"
  /\ Len(toUpdate) = 1
  /\ toUpdate[1].name = outdated[2].name
  /\ \E k \in 1 .. Len(shell) : shell[k] = BunAdd(toUpdate[1])

\* C22: the quality gate runs test:coverage, coverage:check, lint and
\* type-check in that order; a command that exits non-zero is the last one
\* run and makes the script exit with status 1; and "All quality checks
\* passed!" is echoed only after all four commands ran and exited 0.
C22_QualityGateStopsAtFirstFailure ==
  LET order == << "bun run test:coverage", "bun run coverage:check",
                  "bun run lint", "bun run type-check" >>
      passed == \E k \in 1 .. Len(gateOutput) : gateOutput[k] = "All quality checks passed!"
  IN  /\ Len(gateRan) <= 4
      /\ gateRan = SubSeq(order, 1, Len(gateRan))
      /\ \A k \in 1 .. Len(gateRan) :
           gateResults[k] # 0 => Len(gateRan) = k /\ gateExit = 1
      /\ passed => Len(gateRan) = 4 /\ \A k \in 1 .. 4 : gateResults[k] = 0
      /\ gateExit = 0 => passed

\* C22 witness: tests and coverage passed, lint exited with status 2, and
\* the script exited with status 1 before type-check, though type-check
\* would have passed.
C22_Witness ==
  /\ gateResults = << 0, 0, 2, 0 >>
  /\ gateRan = << "bun run test:coverage", "bun run coverage:check", "bun run lint" >>
  /\ gateExit = 1
  /\ gateOutput[Len(gateOutput)] = "Linting failed"

\* C23: once the initial load has settled and every updateValue call has
\* resolved with its write stored, the hook's value is the argument of the
\* last updateValue call and the storage holds that argument's JSON text,
\* whatever the order in which the load and the updates ran.
C23_ValueFollowsLastUpdate ==
  (/\ loadPc = "settled"
   /\ updates # << >>
   /\ \A k \in 1 .. Len(updates) : updates[k].pc = "resolved" /\ updates[k].written) =>
    /\ value = updates[Len(updates)].arg
    /\ storage = JSONstringify(updates[Len(updates)].arg)

====
